---- MODULE Spec2Model ----
(***************************************************************************)
(* Session-progress aggregation of UserManager (src/user-manager.js):      *)
(* saveSessionResults with its helpers updateSkills, calculateStreak,      *)
(* checkAchievements and loadUserData, over a Firestore user document, the *)
(* per-user session log and the cached copy this.userDoc; deleteSession    *)
(* over the top-level collection sessions; register and the                *)
(* onAuthStateChanged callback creating the user document.                 *)
(*                                                                         *)
(* Specifications: SpecSeq (saves one at a time), Spec (saves overlapping  *)
(* and failing), SpecSkills (updateSkills on every input), SpecInvalid     *)
(* (arguments outside the documented domain), SpecDel (saves and deletes), *)
(* SpecGuard (not signed in, document not stored or not cached), SpecReg   *)
(* (register against the listener), SpecAuth (sign-out and sign-in during  *)
(* saves), SpecGuardFair (SpecGuard where every store request settles),    *)
(* SpecVoice and SpecVoiceFair (VoiceRecognition.start, stop and the       *)
(* recogniser's events), SpecAnalytics (Analytics of src/unnamed/part_000).*)
(*                                                                         *)
(* Time is counted in whole hours; a day is HoursPerDay hours.  Every      *)
(* await of the handler is a step boundary: the store operation takes      *)
(* effect and the synchronous code up to the next await runs in one step.  *)
(***************************************************************************)
EXTENDS Integers, Sequences, FiniteSets, TLC

\* ------------------------------------------------------------------ bounds
MaxSessions == 4    \* calls begun when they run one at a time
MaxCalls == 2       \* calls begun when they may overlap or follow deletes
MaxFailures == 1    \* store operations that fail
MaxDeletes == 2     \* deleteSession calls begun
MaxRecognitions == 2 \* recognitions VoiceRecognition.start() creates
MaxResults == 1     \* final results of one recognition
MaxDispatches == 3  \* provider calls after which no further tracking call is made

\* ------------------------------------------------------- program constants
HoursPerDay == 24
MaxSkill == 100
DefaultCurrent == 50
DefaultGained == 0
PerfectScore == 95
EmpathyGoal == 80
PatienceGoal == 90
StreakGoal == 7

Null == -1
Missing == -1

\* The number Infinity: typeof 'number' and not NaN, so getVal and getCur
\* pass it on; it exceeds every weighted sum and Math.min(100, .) caps it.
Infinity == 1000000

SkillNames == {"empathy", "conflictResolution", "boundaryKeeping", "patience"}
AchievementIds ==
    {"first_session", "empathy_master", "patient_teacher", "perfectionist", "week_streak"}
Slots == {1, 2}

\* ----------------------------------------------------------- pure helpers
Min(a, b) == IF a < b THEN a ELSE b

\* Math.floor in place of Math.round.
MathRoundDiv_Floor(p, q) == p \div q

\* A rounding that sends halves down.
MathRoundDiv_HalfDown(p, q) == (2 * p + q - 1) \div (2 * q)

\* Math.round(p / q) for integers p >= 0, q > 0: the quotient of two integers
\* is a correctly rounded double, so the result is the exact half-up rounding.
MathRoundDiv(p, q) == (2 * p + q) \div (2 * q)

\* The pairs (c, g) in 0..100 for which the double c * 0.7 + g * 0.3 lies just
\* below k + 0.5 although 7c + 3g = 10k + 5 (0.7 and 0.3 are not representable):
\* there Math.round yields k, not k + 1.
DoubleBelowHalf == {
    <<1,36>>, <<1,46>>, <<1,96>>, <<2,57>>, <<2,67>>, <<2,77>>, <<2,87>>, <<2,97>>,
    <<3,18>>, <<6,1>>, <<6,11>>, <<6,31>>, <<7,2>>, <<7,62>>, <<7,72>>, <<7,82>>,
    <<12,7>>, <<12,17>>, <<12,57>>, <<12,67>>, <<12,77>>, <<14,9>>, <<17,2>>, <<17,12>>,
    <<17,62>>, <<19,4>>, <<23,8>>, <<23,18>>, <<23,48>>, <<24,9>>, <<24,19>>, <<24,29>>,
    <<24,39>>, <<24,49>>, <<28,3>>, <<28,13>>, <<28,23>>, <<29,4>>, <<29,14>>, <<29,24>>,
    <<29,34>>, <<33,8>>, <<33,18>>, <<34,9>>, <<34,19>>, <<38,3>>, <<38,13>>, <<39,4>>,
    <<39,14>>, <<45,0>>, <<46,1>>, <<46,11>>, <<46,21>>, <<46,31>>, <<46,41>>, <<46,51>>,
    <<48,3>>, <<48,13>>, <<48,23>>, <<48,33>>, <<48,43>>, <<48,53>>, <<48,63>>, <<48,73>>,
    <<48,83>>, <<48,93>>, <<51,6>>, <<51,16>>, <<51,26>>, <<51,36>>, <<51,46>>, <<53,8>>,
    <<53,18>>, <<53,28>>, <<53,38>>, <<53,48>>, <<53,58>>, <<53,68>>, <<53,78>>, <<53,88>>,
    <<56,1>>, <<56,11>>, <<56,21>>, <<56,31>>, <<56,41>>, <<56,51>>, <<58,3>>, <<58,13>>,
    <<58,23>>, <<58,33>>, <<58,43>>, <<58,53>>, <<58,63>>, <<58,73>>, <<61,6>>, <<61,16>>,
    <<61,26>>, <<61,36>>, <<61,46>>, <<63,8>>, <<63,18>>, <<63,28>>, <<63,38>>, <<63,48>>,
    <<63,58>>, <<66,1>>, <<66,11>>, <<66,21>>, <<66,31>>, <<66,41>>, <<66,51>>, <<68,3>>,
    <<68,13>>, <<68,23>>, <<68,33>>, <<68,43>>, <<68,53>>, <<71,6>>, <<71,16>>, <<71,26>>,
    <<71,36>>, <<71,46>>, <<73,8>>, <<73,18>>, <<73,28>>, <<73,38>>, <<76,1>>, <<76,11>>,
    <<76,21>>, <<76,31>>, <<78,3>>, <<78,13>>, <<78,23>>, <<81,6>>, <<81,16>>, <<83,8>>,
    <<83,18>>, <<85,0>>, <<85,10>>, <<86,1>>, <<86,11>>, <<88,3>>, <<92,7>>, <<92,17>>,
    <<92,27>>, <<92,37>>, <<92,47>>, <<92,57>>, <<92,67>>, <<92,77>>, <<92,87>>, <<92,97>>,
    <<96,1>>, <<96,11>>, <<96,21>>, <<96,31>>, <<96,41>>, <<96,51>>, <<96,61>>, <<96,71>>,
    <<96,81>>, <<96,91>>, <<97,2>>, <<97,12>>, <<97,22>>, <<97,32>>, <<97,42>>, <<97,52>>,
    <<97,62>>, <<97,72>>, <<97,82>>, <<97,92>>    }

\* Math.round(c * HISTORY_WEIGHT + g * RECENT_WEIGHT) as evaluated in doubles,
\* the weights 0.7 and 0.3 written as 7/10 and 3/10.
WeightedRound(c, g) ==
    LET exact == (7 * c + 3 * g + 5) \div 10
    IN  IF <<c, g>> \in DoubleBelowHalf THEN exact - 1 ELSE exact

getVal(val) == IF val = Missing THEN DefaultGained ELSE val

\* getCur without its typeof test.
getCur_Unchecked(val) == val

getCur(val) == IF val = Missing THEN DefaultCurrent ELSE val

skillValue(cur, gained) == Min(MaxSkill, WeightedRound(getCur(cur), getVal(gained)))

updateSkills(currentSkills, sessionSkills) ==
    [k \in SkillNames |-> skillValue(currentSkills[k], sessionSkills[k])]

\* calculateStreak that still increments after two days.
calculateStreak_WithinTwoDays(lastSessionDate, clock) ==
    IF lastSessionDate = Null THEN "one"
    ELSE LET daysDiff == (clock - lastSessionDate) \div HoursPerDay
         IN  IF daysDiff = 0 THEN "none"
             ELSE IF daysDiff <= 2 THEN "increment"
             ELSE "one"

\* calculateStreak: "one" = start over at 1, "none" = same day (null),
\* "increment" = the day after.
calculateStreak(lastSessionDate, clock) ==
    IF lastSessionDate = Null THEN "one"
    ELSE LET daysDiff == (clock - lastSessionDate) \div HoursPerDay
         IN  IF daysDiff = 0 THEN "none"
             ELSE IF daysDiff = 1 THEN "increment"
             ELSE "one"

\* The streak restarting at every session.
newStreakOf_Restart(progress, clock) == 1

newStreakOf(progress, clock) ==
    LET streakUpdate == calculateStreak(progress.lastSessionDate, clock)
    IN  IF streakUpdate = "increment" THEN progress.streak + 1
        ELSE IF streakUpdate = "none" THEN progress.streak
        ELSE 1

\* newTotalSessions without the + 1.
newTotalSessionsOf_Unchanged(progress) == progress.totalSessions

newTotalSessionsOf(progress) == progress.totalSessions + 1

newAverageOf(progress, score) ==
    MathRoundDiv(progress.averageScore * progress.totalSessions + score,
                 progress.totalSessions + 1)

\* requirement(user, session) of each entry of getAchievementsToCheck.
requirement(id, user, session) ==
    CASE id = "first_session"   -> user.progress.totalSessions >= 1
      [] id = "empathy_master"  -> user.skills["empathy"] >= EmpathyGoal
      [] id = "patient_teacher" -> user.skills["patience"] >= PatienceGoal
      [] id = "perfectionist"   -> session.score >= PerfectScore
      [] id = "week_streak"     -> user.progress.streak >= StreakGoal

\* The keys of the updates object checkAchievements builds from this.userDoc.
checkAchievements(user, session) ==
    {id \in AchievementIds :
        /\ user.achievements[id] = Null
        /\ requirement(id, user, session)}

\* The ids in the order of the array getAchievementsToCheck returns.
AchievementOrder ==
    <<"first_session", "empathy_master", "patient_teacher", "perfectionist", "week_streak">>

\* What trackEvent(eventName, params) hands to the providers, appended to the
\* log of dispatches: nothing before init, then one gtag call if window.gtag
\* is defined and one ym call if window.ym and this.yandexCounterId are set.
trackEvent(a, log, eventName, label) ==
    IF ~a.isInitialized
    THEN log
    ELSE log \o (IF a.gtag
                 THEN <<[provider |-> "ga4", name |-> eventName, label |-> label]>>
                 ELSE <<>>)
             \o (IF a.ym /\ a.yandexCounterId # ""
                 THEN <<[provider |-> "yandex", name |-> eventName, label |-> label]>>
                 ELSE <<>>)

trackAchievementUnlocked(a, log, achievementId) ==
    trackEvent(a, log, "achievement_unlocked", achievementId)

\* The loop of checkAchievements from entry i on: one
\* trackAchievementUnlocked per id that enters the updates object.
RECURSIVE trackUnlocked(_, _, _, _)
trackUnlocked(a, log, updates, i) ==
    IF i > Len(AchievementOrder)
    THEN log
    ELSE trackUnlocked(a,
                       IF AchievementOrder[i] \in updates
                       THEN trackAchievementUnlocked(a, log, AchievementOrder[i])
                       ELSE log,
                       updates, i + 1)

\* ------------------------------------------------------------ session data
Gained(e, c, b, p) ==
    [k \in SkillNames |->
        CASE k = "empathy" -> e [] k = "conflictResolution" -> c
          [] k = "boundaryKeeping" -> b [] k = "patience" -> p]

\* The sessionData objects handed to saveSessionResults in this model.
SessionInputs == {
    [score |-> 95, duration |-> 600,  skillsGained |-> Gained(90, Missing, Missing, 95)],
    [score |-> 60, duration |-> 1500, skillsGained |-> Gained(Missing, Missing, Missing, Missing)],
    [score |-> 60, duration |-> 1500, skillsGained |-> Gained(100, 100, 100, 100)] }

\* Hours that pass before a call starts.
Gaps == {0, 23, 25, 49}
OverlapGaps == {0, 25}

\* ------------------------------------------------------------------- state
VARIABLES
    now,          \* the clock (new Date(), serverTimestamp), in hours
    currentUser,  \* this.currentUser: "none" or the uid
    userDoc,      \* this.userDoc: NoDoc (null) or the cached document
    storedDoc,    \* the document users/{uid} in the store
    sessions,     \* the subcollection users/{uid}/sessions, in order of arrival
    calls,        \* the saveSessionResults calls in flight, one per slot
    started,      \* number of saveSessionResults calls begun
    failures,     \* number of store operations that have failed
    origin,       \* the stored document of the initial state
    profile,      \* profile.displayName and profile.updatedAt of users/{uid}
    rootSessions, \* the top-level collection sessions
    del,          \* the deleteSession call in flight
    authUser,     \* the Auth user object: its email and displayName
    reg,          \* the register call in flight
    listener,     \* the onAuthStateChanged callback in flight
    analytics,    \* the Analytics instance and the globals window.gtag, window.ym
    dispatched,   \* the calls made to gtag and ym, in order
    isSupported,  \* VoiceRecognition: this.isSupported
    isRecording,  \* VoiceRecognition: this.isRecording
    recognitions, \* the SpeechRecognition instances start() has created
    lastStart     \* what the latest start() call did

delVars == <<profile, rootSessions, del>>
regVars == <<authUser, reg, listener>>
anaVars == <<analytics, dispatched>>
voiceVars == <<isSupported, isRecording, recognitions, lastStart>>

vars == <<now, currentUser, userDoc, storedDoc, sessions, calls, started, failures, origin,
          delVars, regVars, anaVars, voiceVars>>

NoDoc == [exists |-> FALSE]
NoData == [score |-> 0, duration |-> 0, skillsGained |-> Gained(Missing, Missing, Missing, Missing)]
NoUpdate == [totalSessions |-> 0, averageScore |-> 0, streak |-> 0,
             skills |-> Gained(0, 0, 0, 0)]
NoPre == [doc |-> NoDoc, sessions |-> <<>>]
NoProgress == [totalSessions |-> 0, completedScenarios |-> 0, averageScore |-> 0,
               totalTimeSpent |-> 0, streak |-> 0, lastSessionDate |-> Null]

\* createUserDocument's initialData, without the profile.
InitialData ==
    [progress |-> NoProgress,
     skills |-> Gained(0, 0, 0, 0),
     achievements |-> [id \in AchievementIds |-> Null]]

\* A call: where it stands, what it returned, its argument, its locals
\* currentProgress, new* and updates, and the store as it was when it began.
IdleCall == [pc |-> "idle", result |-> "none", data |-> NoData,
             currentProgress |-> NoProgress, update |-> NoUpdate,
             unlocked |-> {}, pre |-> NoPre]

\* A user right after registration, and a user after six sessions on six
\* consecutive days, each with score 60 and every skill gain 100.
Registered == [doc |-> InitialData, sessions |-> <<>>, clock |-> 0]

Veteran ==
    [doc |-> [progress |-> [totalSessions |-> 6, completedScenarios |-> 6,
                            averageScore |-> 60, totalTimeSpent |-> 9000, streak |-> 6,
                            lastSessionDate |-> 125],
              skills |-> Gained(88, 88, 88, 88),
              achievements |-> [id \in AchievementIds |->
                    CASE id = "first_session" -> 25
                      [] id = "empathy_master" -> 125
                      [] OTHER -> Null]],
     sessions |-> [i \in 1..6 |->
                    [score |-> 60, duration |-> 1500,
                     skillsGained |-> Gained(100, 100, 100, 100),
                     completedAt |-> 25 * (i - 1)]],
     clock |-> 125]

\* The profile fields the operations below read or write; no stored document,
\* no profile.
NoProfile == [displayName |-> "", updatedAt |-> Null]

\* email.split('@')[0] for the addresses of this model.
EmailPrefix(email) ==
    CASE email = "anna@school.org" -> "anna"
      [] email = "bo@school.org" -> "bo"
      [] OTHER -> ""

\* The profile always named after the email, whatever displayName is given.
initialProfile_PrefixOnly(email, displayName) ==
    [displayName |-> EmailPrefix(email), updatedAt |-> Null]

\* The profile of createUserDocument's initialData (lines 109-111): a
\* displayName that is null or empty falls back to the email prefix.
initialProfile(email, displayName) ==
    [displayName |-> IF displayName # "" THEN displayName ELSE EmailPrefix(email),
     updatedAt |-> Null]

\* Line 153: this.currentUser.displayName, read when createUserDocument is
\* called.
currentDisplayName(user) == user.displayName

\* The Auth user of the signed-in states, and the profile stored for it.
AnnaUser == [email |-> "anna@school.org", displayName |-> "Anna"]
AnnaProfile == [displayName |-> "Anna", updatedAt |-> Null]

\* A deleteSession call: where it stands, what it returned, its argument, the
\* number of calls begun so far, its locals totalSessions, averageScore and
\* totalTime, and the stored document and profile as they were when it began.
NoRecount == [totalSessions |-> 0, averageScore |-> 0, totalTime |-> 0]
IdleDelete == [pc |-> "idle", result |-> "none", sessionId |-> 0, begun |-> 0,
               recount |-> NoRecount, pre |-> [doc |-> NoDoc, profile |-> NoProfile]]

\* A register call and the onAuthStateChanged callback: where they stand,
\* register's arguments and result.
IdleRegister == [pc |-> "idle", result |-> "none", email |-> "", displayName |-> ""]
IdleListener == [pc |-> "idle", displayName |-> ""]

\* The Analytics instance with the globals it reads: this.isInitialized,
\* this.yandexCounterId ("" while undefined), whether window.gtag and
\* window.ym are defined, and how often each provider has been initialised.
NewAnalytics == [isInitialized |-> FALSE, yandexCounterId |-> "", gtag |-> FALSE,
                 ym |-> FALSE, ga4Inits |-> 0, yandexInits |-> 0]

\* The instance after init({ga4MeasurementId: "G-1"}) on a page without
\* Yandex Metrika, with nothing dispatched yet.
AnalyticsReady ==
    /\ analytics = [NewAnalytics EXCEPT !.isInitialized = TRUE, !.gtag = TRUE,
                                        !.ga4Inits = 1]
    /\ dispatched = <<>>

\* A VoiceRecognition instance in a browser with the Web Speech API, on
\* which start() has not been called.
VoiceIdle ==
    /\ isSupported = TRUE
    /\ isRecording = FALSE
    /\ recognitions = <<>>
    /\ lastStart = "none"

\* No deleteSession or register call is in flight, the listener is idle and
\* nothing has been written to the top-level collection sessions.
Quiet ==
    /\ profile = AnnaProfile
    /\ rootSessions = <<>>
    /\ del = IdleDelete
    /\ authUser = AnnaUser
    /\ reg = IdleRegister
    /\ listener = IdleListener
    /\ AnalyticsReady
    /\ VoiceIdle

\* The user is signed in (onAuthStateChanged has set currentUser) and the
\* document is cached or not yet loaded.
Init ==
    /\ currentUser = "u1"
    /\ \E start \in {Registered, Veteran} :
            /\ now = start.clock
            /\ storedDoc = start.doc
            /\ sessions = start.sessions
    /\ userDoc \in {NoDoc, storedDoc}
    /\ calls = [c \in Slots |-> IdleCall]
    /\ started = 0
    /\ failures = 0
    /\ origin = storedDoc
    /\ Quiet

\* ------------------------------------------------------- saveSessionResults
\* A store operation either succeeds or fails; at most MaxFailures fail.
Outcome(ok) ==
    /\ ok \in BOOLEAN
    /\ ~ok => failures < MaxFailures
    /\ failures' = IF ok THEN failures ELSE failures + 1

Finish(c, res) ==
    calls' = [calls EXCEPT ![c].pc = "idle", ![c].result = res]

\* The first store operation without the reload of a missing this.userDoc.
firstStep_NoReload(cached) == "add"

\* Lines 175-191: without a cached document the call first reloads it.
firstStep(cached) == IF cached = NoDoc THEN "reload" ELSE "add"

\* Lines 166-187 up to the first await: the call starts h hours after the
\* previous event; without a current user it throws.
SaveSessionResults(c, sessionData, h) ==
    /\ calls[c].pc = "idle"
    /\ now' = now + h
    /\ started' = started + 1
    /\ calls' = [calls EXCEPT ![c] =
            [pc |-> IF currentUser = "none" THEN "idle" ELSE firstStep(userDoc),
             result |-> IF currentUser = "none" THEN "thrown" ELSE "pending",
             data |-> sessionData,
             currentProgress |-> NoProgress, update |-> NoUpdate,
             unlocked |-> {}, pre |-> [doc |-> storedDoc, sessions |-> sessions]]]
    /\ UNCHANGED <<currentUser, userDoc, storedDoc, sessions, failures, origin>>
    /\ UNCHANGED <<delVars, regVars>>
    /\ UNCHANGED <<anaVars, voiceVars>>

\* Lines 175-187 and 143-155: the get of loadUserData(userId) returns.  A
\* failure ends the call; a document that exists is cached; for one that
\* does not, createUserDocument's set is sent.
AfterReload(c, ok) ==
    /\ calls[c].pc = "reload"
    /\ Outcome(ok)
    /\ IF ok
       THEN IF storedDoc = NoDoc
            THEN /\ IF currentUser = "none"
                    THEN Finish(c, "failure")
                    ELSE calls' = [calls EXCEPT ![c].pc = "create"]
                 /\ UNCHANGED userDoc
            ELSE /\ userDoc' = storedDoc
                 /\ calls' = [calls EXCEPT ![c].pc = "add"]
       ELSE /\ Finish(c, "failure")
            /\ UNCHANGED userDoc
    /\ UNCHANGED <<now, currentUser, storedDoc, sessions, started, origin>>
    /\ UNCHANGED <<delVars, regVars>>
    /\ UNCHANGED <<anaVars, voiceVars>>

\* A set that is acknowledged and leaves the store as it was.
setDocument_Ignored(old, data) == old

\* Line 133: a completed set(initialData) makes the document exist with
\* that data.
setDocument(old, data) == data

\* Lines 106-135 and 155: createUserDocument's set lands and loadUserData
\* calls itself; its get is sent.
AfterCreate(c, ok) ==
    /\ calls[c].pc = "create"
    /\ Outcome(ok)
    /\ IF ok
       THEN /\ storedDoc' = setDocument(storedDoc, InitialData)
            /\ profile' = initialProfile(authUser.email, currentDisplayName(authUser))
            /\ calls' = [calls EXCEPT ![c].pc = "reload"]
       ELSE /\ Finish(c, "failure")
            /\ UNCHANGED <<storedDoc, profile>>
    /\ UNCHANGED <<now, currentUser, userDoc, sessions, started, origin,
                   rootSessions, del, regVars>>
    /\ UNCHANGED <<anaVars, voiceVars>>

\* Lines 191-227: sessions.add returns; progress, streak and skills are
\* computed from this.userDoc and the update is sent.
AfterAdd(c, ok) ==
    /\ calls[c].pc = "add"
    /\ Outcome(ok)
    /\ IF ok
       THEN /\ sessions' = Append(sessions,
                    [score |-> calls[c].data.score, duration |-> calls[c].data.duration,
                     skillsGained |-> calls[c].data.skillsGained, completedAt |-> now])
            /\ IF userDoc = NoDoc
               THEN Finish(c, "failure")
               ELSE calls' = [calls EXCEPT ![c].pc = "update",
                        ![c].currentProgress = userDoc.progress,
                        ![c].update =
                        [totalSessions |-> newTotalSessionsOf(userDoc.progress),
                         averageScore |-> newAverageOf(userDoc.progress, calls[c].data.score),
                         streak |-> newStreakOf(userDoc.progress, now),
                         skills |-> updateSkills(userDoc.skills, calls[c].data.skillsGained)]]
       ELSE /\ Finish(c, "failure")
            /\ UNCHANGED sessions
    /\ UNCHANGED <<now, currentUser, userDoc, storedDoc, started, origin>>
    /\ UNCHANGED <<delVars, regVars>>
    /\ UNCHANGED <<anaVars, voiceVars>>

\* Lines 219-227 and 290-324: userRef.update lands; checkAchievements builds
\* its updates from this.userDoc and sends them, or loadUserData starts.
AfterUpdate(c, ok) ==
    /\ calls[c].pc = "update"
    /\ Outcome(ok)
    /\ IF ok
       THEN /\ storedDoc' = [storedDoc EXCEPT
                    !.progress = [totalSessions |-> calls[c].update.totalSessions,
                                  completedScenarios |-> @.completedScenarios + 1,
                                  averageScore |-> calls[c].update.averageScore,
                                  totalTimeSpent |-> @.totalTimeSpent + calls[c].data.duration,
                                  streak |-> calls[c].update.streak,
                                  lastSessionDate |-> now],
                    !.skills = calls[c].update.skills]
            /\ IF userDoc = NoDoc \/ currentUser = "none"
               THEN Finish(c, "failure")
               ELSE LET updates == checkAchievements(userDoc, calls[c].data)
                    IN  calls' = [calls EXCEPT
                            ![c].pc = IF updates # {} THEN "achievements" ELSE "load",
                            ![c].unlocked = updates]
       ELSE /\ Finish(c, "failure")
            /\ UNCHANGED storedDoc
    /\ dispatched' =
            IF ok /\ userDoc # NoDoc /\ currentUser # "none"
            THEN trackUnlocked(analytics, dispatched,
                               checkAchievements(userDoc, calls[c].data), 1)
            ELSE dispatched
    /\ UNCHANGED <<now, currentUser, userDoc, sessions, started, origin>>
    /\ UNCHANGED <<delVars, regVars>>
    /\ UNCHANGED <<analytics, voiceVars>>

\* Lines 321-323 and 233: the achievements update lands; loadUserData starts.
AfterAchievements(c, ok) ==
    /\ calls[c].pc = "achievements"
    /\ Outcome(ok)
    /\ IF ok
       THEN /\ storedDoc' = [storedDoc EXCEPT !.achievements =
                    [id \in AchievementIds |->
                        IF id \in calls[c].unlocked THEN now ELSE @[id]]]
            /\ calls' = [calls EXCEPT ![c].pc = "load"]
       ELSE /\ Finish(c, "failure")
            /\ UNCHANGED storedDoc
    /\ UNCHANGED <<now, currentUser, userDoc, sessions, started, origin>>
    /\ UNCHANGED <<delVars, regVars>>
    /\ UNCHANGED <<anaVars, voiceVars>>

\* Lines 233-240 and 140-161: the reload returns and the call ends.
AfterLoad(c, ok) ==
    /\ calls[c].pc = "load"
    /\ Outcome(ok)
    /\ IF ok
       THEN /\ userDoc' = storedDoc
            /\ Finish(c, "success")
       ELSE /\ Finish(c, "failure")
            /\ UNCHANGED userDoc
    /\ UNCHANGED <<now, currentUser, storedDoc, sessions, started, origin>>
    /\ UNCHANGED <<delVars, regVars>>
    /\ UNCHANGED <<anaVars, voiceVars>>

\* ------------------------------------------------------------ deleteSession
MillisPerSecond == 1000

RECURSIVE SumDurations(_)
SumDurations(log) ==
    IF log = <<>> THEN 0 ELSE log[1].duration + SumDurations(Tail(log))

RECURSIVE SumScores(_)
SumScores(log) == IF log = <<>> THEN 0 ELSE log[1].score + SumScores(Tail(log))

\* Lines 462-464: the documents of the top-level collection with this userId.
SessionsOf(uid) == SelectSeq(rootSessions, LAMBDA s : s.userId = uid)

\* averageScore as the total score, not divided by the number of sessions.
recountAverage_Total(log) == SumScores(log)

\* Line 470.
recountAverage(log) ==
    IF Len(log) > 0 THEN MathRoundDiv(SumScores(log), Len(log)) ELSE 0

\* deleteSession's update resetting the streak as well.
recountedFields_ResetStreak(doc, recount) ==
    [doc EXCEPT !.progress.totalSessions = recount.totalSessions,
                !.progress.averageScore = recount.averageScore,
                !.progress.totalTimeSpent = MathRoundDiv(recount.totalTime, MillisPerSecond),
                !.progress.streak = 0]

\* Lines 475-479: the progress fields deleteSession's update sets.
recountedFields(doc, recount) ==
    [doc EXCEPT !.progress.totalSessions = recount.totalSessions,
                !.progress.averageScore = recount.averageScore,
                !.progress.totalTimeSpent = MathRoundDiv(recount.totalTime, MillisPerSecond)]

FinishDelete(res) == del' = [del EXCEPT !.pc = "idle", !.result = res]

\* Lines 452-459 up to the first await: without a user the call returns
\* {success: false}; otherwise the delete is sent.
DeleteSession(sessionId) ==
    /\ del.pc = "idle"
    /\ del' = [pc |-> IF currentUser = "none" THEN "idle" ELSE "delete",
               result |-> IF currentUser = "none" THEN "failure" ELSE "pending",
               sessionId |-> sessionId, begun |-> del.begun + 1, recount |-> NoRecount,
               pre |-> [doc |-> storedDoc, profile |-> profile]]
    /\ UNCHANGED <<now, currentUser, userDoc, storedDoc, sessions, calls, started,
                   failures, origin, profile, rootSessions, regVars>>
    /\ UNCHANGED <<anaVars, voiceVars>>

\* Lines 459-464: sessions/{sessionId} is deleted from the top-level
\* collection (a document that is not there is no error); the query is sent.
AfterDelete(ok) ==
    /\ del.pc = "delete"
    /\ Outcome(ok)
    /\ IF ok
       THEN /\ rootSessions' = SelectSeq(rootSessions, LAMBDA s : s.id # del.sessionId)
            /\ del' = [del EXCEPT !.pc = "query"]
       ELSE /\ FinishDelete("failure")
            /\ UNCHANGED rootSessions
    /\ UNCHANGED <<now, currentUser, userDoc, storedDoc, sessions, calls, started,
                   origin, profile, regVars>>
    /\ UNCHANGED <<anaVars, voiceVars>>

\* Lines 462-480: the query returns; the statistics are recounted from its
\* documents and the update is sent.
AfterQuery(ok) ==
    /\ del.pc = "query"
    /\ Outcome(ok)
    /\ IF ok /\ currentUser # "none"
       THEN LET found == SessionsOf(currentUser)
            IN  del' = [del EXCEPT !.pc = "update",
                        !.recount = [totalSessions |-> Len(found),
                                     averageScore |-> recountAverage(found),
                                     totalTime |-> SumDurations(found)]]
       ELSE FinishDelete("failure")
    /\ UNCHANGED <<now, currentUser, userDoc, storedDoc, sessions, calls, started,
                   origin, profile, rootSessions, regVars>>
    /\ UNCHANGED <<anaVars, voiceVars>>

\* Lines 475-483: the update lands; loadUserData starts.
AfterRecount(ok) ==
    /\ del.pc = "update"
    /\ Outcome(ok)
    /\ IF ok /\ storedDoc # NoDoc
       THEN /\ storedDoc' = recountedFields(storedDoc, del.recount)
            /\ profile' = [profile EXCEPT !.updatedAt = now]
            /\ IF currentUser = "none"
               THEN FinishDelete("failure")
               ELSE del' = [del EXCEPT !.pc = "load"]
       ELSE /\ FinishDelete("failure")
            /\ UNCHANGED <<storedDoc, profile>>
    /\ UNCHANGED <<now, currentUser, userDoc, sessions, calls, started, origin,
                   rootSessions, regVars>>
    /\ UNCHANGED <<anaVars, voiceVars>>

\* Lines 483-490: the reload returns and the call ends.
AfterDeleteLoad(ok) ==
    /\ del.pc = "load"
    /\ Outcome(ok)
    /\ IF ok
       THEN /\ userDoc' = storedDoc
            /\ FinishDelete("success")
       ELSE /\ FinishDelete("failure")
            /\ UNCHANGED userDoc
    /\ UNCHANGED <<now, currentUser, storedDoc, sessions, calls, started, origin,
                   profile, rootSessions, regVars>>
    /\ UNCHANGED <<anaVars, voiceVars>>

\* A call that may overlap another one.  Slot 2 serves the call that starts
\* while the call of slot 1 is in flight, within the same hour.
StartOverlapping(c, sessionData, h) ==
    /\ started < MaxCalls
    /\ c = 2 => (calls[1].pc # "idle" /\ h = 0)
    /\ SaveSessionResults(c, sessionData, h)

\* Calls may overlap and store operations may fail.
Next ==
    \/ \E c \in Slots, sessionData \in SessionInputs, h \in OverlapGaps :
            StartOverlapping(c, sessionData, h)
    \/ \E c \in Slots, ok \in BOOLEAN : AfterReload(c, ok)
    \/ \E c \in Slots, ok \in BOOLEAN : AfterAdd(c, ok)
    \/ \E c \in Slots, ok \in BOOLEAN : AfterUpdate(c, ok)
    \/ \E c \in Slots, ok \in BOOLEAN : AfterAchievements(c, ok)
    \/ \E c \in Slots, ok \in BOOLEAN : AfterLoad(c, ok)

Spec == Init /\ [][Next]_vars

\* A call that starts when no other call is in flight.
StartInTurn(sessionData, h) ==
    /\ started < MaxSessions
    /\ SaveSessionResults(1, sessionData, h)

\* One call at a time, every store operation succeeding.
NextSeq ==
    \/ \E sessionData \in SessionInputs, h \in Gaps : StartInTurn(sessionData, h)
    \/ AfterReload(1, TRUE)
    \/ AfterAdd(1, TRUE)
    \/ AfterUpdate(1, TRUE)
    \/ AfterAchievements(1, TRUE)
    \/ AfterLoad(1, TRUE)

SpecSeq == Init /\ [][NextSeq]_vars

\* ------------------------------------------- updateSkills on every input
SkillValues == (0..MaxSkill) \cup {Missing}

\* skillsGained maps with one value for all keys, or with a single key.
SkillProbes ==
    {[score |-> 60, duration |-> 600, skillsGained |-> Gained(g, g, g, g)] :
        g \in SkillValues}
    \cup
    {[score |-> 60, duration |-> 600,
      skillsGained |-> [k \in SkillNames |-> IF k = only THEN g ELSE Missing]] :
        only \in SkillNames, g \in 0..MaxSkill}

\* Any stored skill record with one value for all four skills.
InitSkills ==
    /\ now = 0
    /\ currentUser = "u1"
    /\ \E c \in SkillValues :
            storedDoc = [InitialData EXCEPT !.skills = Gained(c, c, c, c)]
    /\ userDoc = storedDoc
    /\ sessions = <<>>
    /\ calls = [c \in Slots |-> IdleCall]
    /\ started = 0
    /\ failures = 0
    /\ origin = storedDoc
    /\ Quiet

\* The one call of a behaviour of SpecSkills.
StartProbe(sessionData) ==
    /\ calls[1].result = "none"
    /\ SaveSessionResults(1, sessionData, 0)

NextSkills ==
    \/ \E sessionData \in SkillProbes : StartProbe(sessionData)
    \/ AfterAdd(1, TRUE)
    \/ AfterUpdate(1, TRUE)
    \/ AfterAchievements(1, TRUE)
    \/ AfterLoad(1, TRUE)

SpecSkills == InitSkills /\ [][NextSkills]_vars

\* ------------------------------------------------ calls with invalid input
\* sessionData objects outside the documented domain: a score above 100, a
\* negative score, and an infinite skill gain.
InvalidInputs == {
    [score |-> 150, duration |-> 600, skillsGained |-> Gained(Missing, Missing, Missing, Missing)],
    [score |-> -5,  duration |-> 600, skillsGained |-> Gained(Missing, Missing, Missing, Missing)],
    [score |-> 60,  duration |-> 600, skillsGained |-> Gained(Infinity, Missing, Missing, Missing)] }

StartUnchecked(sessionData, h) ==
    /\ started < MaxCalls
    /\ SaveSessionResults(1, sessionData, h)

\* One call at a time with invalid arguments, every store operation
\* succeeding.
NextInvalid ==
    \/ \E sessionData \in InvalidInputs, h \in OverlapGaps : StartUnchecked(sessionData, h)
    \/ AfterReload(1, TRUE)
    \/ AfterAdd(1, TRUE)
    \/ AfterUpdate(1, TRUE)
    \/ AfterAchievements(1, TRUE)
    \/ AfterLoad(1, TRUE)

SpecInvalid == Init /\ [][NextInvalid]_vars

\* ------------------------------------- saveSessionResults and deleteSession
\* Documents of the top-level collection sessions.  No code of this program
\* writes them; the query of lines 462-464 expects userId, score and duration
\* (in milliseconds, line 478).
TopLevelSessions == <<
    [id |-> 101, userId |-> "u1", score |-> 80, duration |-> 90000],
    [id |-> 102, userId |-> "u1", score |-> 71, duration |-> 45500],
    [id |-> 103, userId |-> "u2", score |-> 10, duration |-> 1000] >>

\* As Init, with the top-level collection empty or holding documents.
InitDel ==
    /\ currentUser = "u1"
    /\ \E start \in {Registered, Veteran} :
            /\ now = start.clock
            /\ storedDoc = start.doc
            /\ sessions = start.sessions
    /\ userDoc \in {NoDoc, storedDoc}
    /\ calls = [c \in Slots |-> IdleCall]
    /\ started = 0
    /\ failures = 0
    /\ origin = storedDoc
    /\ profile = AnnaProfile
    /\ rootSessions \in {<<>>, TopLevelSessions}
    /\ del = IdleDelete
    /\ authUser = AnnaUser
    /\ reg = IdleRegister
    /\ listener = IdleListener
    /\ AnalyticsReady
    /\ VoiceIdle

\* The ids a caller can pass: those getSessionHistory returns (the documents
\* of users/{uid}/sessions, numbered in order of arrival) and those of the
\* user's documents in the top-level collection.
SessionIds ==
    (1..Len(sessions)) \cup {SessionsOf("u1")[i].id : i \in 1..Len(SessionsOf("u1"))}

StartSave(sessionData, h) ==
    /\ started < MaxCalls
    /\ del.pc = "idle"
    /\ SaveSessionResults(1, sessionData, h)

StartDelete ==
    /\ del.begun < MaxDeletes
    /\ calls[1].pc = "idle"
    /\ \E sessionId \in SessionIds : DeleteSession(sessionId)

\* Saves and deletes one at a time, every store operation succeeding.
NextDel ==
    \/ \E sessionData \in SessionInputs, h \in OverlapGaps : StartSave(sessionData, h)
    \/ AfterReload(1, TRUE)
    \/ AfterAdd(1, TRUE)
    \/ AfterUpdate(1, TRUE)
    \/ AfterAchievements(1, TRUE)
    \/ AfterLoad(1, TRUE)
    \/ StartDelete
    \/ AfterDelete(TRUE)
    \/ AfterQuery(TRUE)
    \/ AfterRecount(TRUE)
    \/ AfterDeleteLoad(TRUE)

SpecDel == InitDel /\ [][NextDel]_vars

\* ------------------------------------- the guards of saveSessionResults
\* Signed in or not, with the user's document stored or not and cached or
\* not.
InitGuard ==
    /\ currentUser \in {"none", "u1"}
    /\ \E start \in {Registered, Veteran} :
            /\ now = start.clock
            /\ \/ storedDoc = start.doc /\ sessions = start.sessions
                    /\ profile = AnnaProfile
               \/ storedDoc = NoDoc /\ sessions = <<>> /\ profile = NoProfile
                    /\ start = Registered
    /\ userDoc \in IF currentUser = "none" THEN {NoDoc} ELSE {NoDoc, storedDoc}
    /\ calls = [c \in Slots |-> IdleCall]
    /\ started = 0
    /\ failures = 0
    /\ origin = storedDoc
    /\ rootSessions = <<>>
    /\ del = IdleDelete
    /\ authUser = AnnaUser
    /\ reg = IdleRegister
    /\ listener = IdleListener
    /\ AnalyticsReady
    /\ VoiceIdle

StartGuarded(sessionData, h) ==
    /\ started < MaxCalls
    /\ SaveSessionResults(1, sessionData, h)

\* One call at a time; store operations may fail.
NextGuard ==
    \/ \E sessionData \in SessionInputs, h \in OverlapGaps : StartGuarded(sessionData, h)
    \/ \E ok \in BOOLEAN : AfterReload(1, ok)
    \/ \E ok \in BOOLEAN : AfterCreate(1, ok)
    \/ \E ok \in BOOLEAN : AfterAdd(1, ok)
    \/ \E ok \in BOOLEAN : AfterUpdate(1, ok)
    \/ \E ok \in BOOLEAN : AfterAchievements(1, ok)
    \/ \E ok \in BOOLEAN : AfterLoad(1, ok)

SpecGuard == InitGuard /\ [][NextGuard]_vars

\* Every get and every set the store was sent settles, with a result or with
\* an error, so the await of loadUserData and of createUserDocument returns.
SpecGuardFair ==
    /\ SpecGuard
    /\ WF_vars(\E ok \in BOOLEAN : AfterReload(1, ok))
    /\ WF_vars(\E ok \in BOOLEAN : AfterCreate(1, ok))

\* ------------------------------------- register and onAuthStateChanged
\* Writes of one client reach the store in the order in which they were
\* issued, and a get sees the client's own writes: a set takes effect in the
\* step that issues it, and the step of its await only lets the caller go on.
\* Auth hands the listener the user object that updateProfile updates.
NoUser == [email |-> "", displayName |-> ""]

Emails == {"anna@school.org", "bo@school.org"}
DisplayNames == {"", "Anna", "anna"}

FinishRegister(res) == reg' = [reg EXCEPT !.pc = "idle", !.result = res]

\* Lines 50-52: createUserWithEmailAndPassword is sent.
Register(email, displayName) ==
    /\ reg.pc = "idle"
    /\ reg.result = "none"
    /\ reg' = [pc |-> "createUser", result |-> "pending",
               email |-> email, displayName |-> displayName]
    /\ UNCHANGED <<now, currentUser, userDoc, storedDoc, sessions, calls, started,
                   failures, origin, delVars, authUser, listener>>
    /\ UNCHANGED <<anaVars, voiceVars>>

\* Lines 52-56: the account exists and is signed in, which calls the
\* listener; updateProfile is sent.
AfterCreateUser(ok) ==
    /\ reg.pc = "createUser"
    /\ Outcome(ok)
    /\ IF ok
       THEN /\ authUser' = [email |-> reg.email, displayName |-> ""]
            /\ listener' = [listener EXCEPT !.pc = "called"]
            /\ reg' = [reg EXCEPT !.pc = "updateProfile"]
       ELSE /\ FinishRegister("failure")
            /\ UNCHANGED <<authUser, listener>>
    /\ UNCHANGED <<now, currentUser, userDoc, storedDoc, sessions, calls, started,
                   origin, delVars>>
    /\ UNCHANGED <<anaVars, voiceVars>>

\* Lines 56-59 and 106-133: updateProfile has set user.displayName;
\* createUserDocument(user.uid, email, displayName) issues its set.
AfterUpdateProfile(ok) ==
    /\ reg.pc = "updateProfile"
    /\ Outcome(ok)
    /\ IF ok
       THEN /\ authUser' = [authUser EXCEPT !.displayName = reg.displayName]
            /\ storedDoc' = InitialData
            /\ profile' = initialProfile(reg.email, reg.displayName)
            /\ reg' = [reg EXCEPT !.pc = "createDocument"]
       ELSE /\ FinishRegister("failure")
            /\ UNCHANGED <<authUser, storedDoc, profile>>
    /\ UNCHANGED <<now, currentUser, userDoc, sessions, calls, started, origin,
                   rootSessions, del, listener>>
    /\ UNCHANGED <<anaVars, voiceVars>>

\* Lines 59-62: the set is acknowledged; register returns success.
AfterCreateDocument ==
    /\ reg.pc = "createDocument"
    /\ FinishRegister("success")
    /\ UNCHANGED <<now, currentUser, userDoc, storedDoc, sessions, calls, started,
                   failures, origin, delVars, authUser, listener>>
    /\ UNCHANGED <<anaVars, voiceVars>>

\* Lines 31-35 and 140-143: the callback runs with the user; it sets
\* this.currentUser and loadUserData sends its get.
ListenerRuns ==
    /\ listener.pc = "called"
    /\ currentUser' = "u1"
    /\ listener' = [listener EXCEPT !.pc = "get"]
    /\ UNCHANGED <<now, userDoc, storedDoc, sessions, calls, started, failures,
                   origin, delVars, authUser, reg>>
    /\ UNCHANGED <<anaVars, voiceVars>>

\* Lines 143-155: the get returns.  A document that exists is cached and
\* the callback ends; for one that does not, createUserDocument(userId,
\* this.currentUser.email, this.currentUser.displayName) issues its set.
ListenerGot(ok) ==
    /\ listener.pc = "get"
    /\ Outcome(ok)
    /\ IF ok
       THEN IF storedDoc # NoDoc
            THEN /\ userDoc' = storedDoc
                 /\ listener' = [listener EXCEPT !.pc = "done"]
                 /\ UNCHANGED <<storedDoc, profile>>
            ELSE /\ storedDoc' = InitialData
                 /\ profile' = initialProfile(authUser.email, currentDisplayName(authUser))
                 /\ listener' = [pc |-> "create",
                                 displayName |-> initialProfile(authUser.email,
                                                    currentDisplayName(authUser)).displayName]
                 /\ UNCHANGED userDoc
       ELSE /\ listener' = [listener EXCEPT !.pc = "done"]
            /\ UNCHANGED <<userDoc, storedDoc, profile>>
    /\ UNCHANGED <<now, currentUser, sessions, calls, started, origin,
                   rootSessions, del, authUser, reg>>
    /\ UNCHANGED <<anaVars, voiceVars>>

\* Line 155: the set is acknowledged; loadUserData calls itself and sends
\* its get.
ListenerCreated ==
    /\ listener.pc = "create"
    /\ listener' = [listener EXCEPT !.pc = "get"]
    /\ UNCHANGED <<now, currentUser, userDoc, storedDoc, sessions, calls, started,
                   failures, origin, delVars, authUser, reg>>
    /\ UNCHANGED <<anaVars, voiceVars>>

\* Nobody is signed in and the new user has no document.
InitReg ==
    /\ now = 0
    /\ currentUser = "none"
    /\ userDoc = NoDoc
    /\ storedDoc = NoDoc
    /\ sessions = <<>>
    /\ calls = [c \in Slots |-> IdleCall]
    /\ started = 0
    /\ failures = 0
    /\ origin = NoDoc
    /\ profile = NoProfile
    /\ rootSessions = <<>>
    /\ del = IdleDelete
    /\ authUser = NoUser
    /\ reg = IdleRegister
    /\ listener = IdleListener
    /\ AnalyticsReady
    /\ VoiceIdle

\* One register call and the listener callback it causes, in any
\* interleaving; Auth calls and gets may fail.
NextReg ==
    \/ \E email \in Emails, displayName \in DisplayNames : Register(email, displayName)
    \/ \E ok \in BOOLEAN : AfterCreateUser(ok)
    \/ \E ok \in BOOLEAN : AfterUpdateProfile(ok)
    \/ AfterCreateDocument
    \/ ListenerRuns
    \/ \E ok \in BOOLEAN : ListenerGot(ok)
    \/ ListenerCreated

SpecReg == InitReg /\ [][NextReg]_vars

\* ----------------------------------------------------- auth-state events
\* Lines 31-34: the user signs in again; Auth calls the listener with the
\* user.
SignIn ==
    /\ authUser = NoUser
    /\ listener.pc \in {"idle", "done"}
    /\ authUser' = AnnaUser
    /\ listener' = [listener EXCEPT !.pc = "called"]
    /\ UNCHANGED <<now, currentUser, userDoc, storedDoc, sessions, calls, started,
                   failures, origin, delVars, reg, anaVars, voiceVars>>

\* Lines 36-40: the user signs out; Auth calls the listener with null, after
\* the callbacks of earlier events have been started, and the callback
\* clears this.currentUser and this.userDoc.
SignOut ==
    /\ authUser # NoUser
    /\ listener.pc # "called"
    /\ authUser' = NoUser
    /\ currentUser' = "none"
    /\ userDoc' = NoDoc
    /\ UNCHANGED <<now, storedDoc, sessions, calls, started, failures, origin,
                   delVars, reg, listener, anaVars, voiceVars>>

StartSignedIn(sessionData, h) ==
    /\ started < MaxCalls
    /\ SaveSessionResults(1, sessionData, h)

\* Sign-out and sign-in events while saveSessionResults calls and the
\* listener's loadUserData are in flight; every store operation succeeds.
NextAuth ==
    \/ \E sessionData \in SessionInputs, h \in OverlapGaps : StartSignedIn(sessionData, h)
    \/ AfterAdd(1, TRUE)
    \/ AfterUpdate(1, TRUE)
    \/ AfterAchievements(1, TRUE)
    \/ AfterLoad(1, TRUE)
    \/ SignOut
    \/ SignIn
    \/ ListenerRuns
    \/ ListenerGot(TRUE)

\* Signed in with the document loaded.
InitAuth == Init /\ userDoc = storedDoc

SpecAuth == InitAuth /\ [][NextAuth]_vars

\* --------------------------------------------------------- VoiceRecognition
\* A transcript is a sequence of pieces: a recognised text or one blank.
\* The recogniser may deliver an empty text as a final result.
Words == {"", "yes"}
Blank == " "

\* The string the pieces concatenate to: empty pieces vanish.
Joined(t) == SelectSeq(t, LAMBDA piece : piece # "")

RECURSIVE TrimStart(_)
TrimStart(t) == IF t # <<>> /\ Head(t) = Blank THEN TrimStart(Tail(t)) ELSE t

RECURSIVE TrimEnd(_)
TrimEnd(t) ==
    IF t # <<>> /\ t[Len(t)] = Blank THEN TrimEnd(SubSeq(t, 1, Len(t) - 1)) ELSE t

\* String.prototype.trim of lines 594 and 596.
Trim(t) == TrimEnd(TrimStart(Joined(t)))

\* A promise that any later resolve or reject settles again.
settle_Again(promise, outcome) == outcome

\* resolve and reject of the promise of line 562: the first call settles
\* it, later calls do nothing.
settle(promise, outcome) == IF promise = "pending" THEN outcome ELSE promise

\* Lines 531-540 and 562-564: a recognition instance with its closure.
NewRecognition ==
    [status |-> "active", finalTranscript |-> <<>>, promise |-> "pending",
     value |-> <<>>, stopRequested |-> FALSE]

\* Lines 549-632: start() throws without support or while recording;
\* otherwise it creates a recognition, sets isRecording and starts it, and
\* if recognition.start() throws it clears isRecording and rejects.
Start(throws) ==
    /\ IF ~isSupported
       THEN /\ lastStart' = "notSupported"
            /\ UNCHANGED <<isRecording, recognitions>>
       ELSE IF isRecording
       THEN /\ lastStart' = "alreadyRecording"
            /\ UNCHANGED <<isRecording, recognitions>>
       ELSE /\ Len(recognitions) < MaxRecognitions
            /\ lastStart' = "accepted"
            /\ isRecording' = ~throws
            /\ recognitions' = Append(recognitions,
                    IF throws
                    THEN [NewRecognition EXCEPT !.status = "failed",
                                                !.promise = settle(@, "rejectedThrow")]
                    ELSE NewRecognition)
    /\ UNCHANGED isSupported
    /\ UNCHANGED <<now, currentUser, userDoc, storedDoc, sessions, calls, started,
                   failures, origin, delVars, regVars, anaVars>>

\* Lines 638-643: stop() asks the current recognition to stop.
Stop ==
    /\ recognitions # <<>>
    /\ isRecording
    /\ recognitions[Len(recognitions)].status = "active"
    /\ recognitions' = [recognitions EXCEPT ![Len(recognitions)].stopRequested = TRUE]
    /\ UNCHANGED <<isSupported, isRecording, lastStart>>
    /\ UNCHANGED <<now, currentUser, userDoc, storedDoc, sessions, calls, started,
                   failures, origin, delVars, regVars, anaVars>>

\* Lines 567-585: a result event of recognition r; a final result is
\* appended to finalTranscript with a blank, an interim one is not.
OnResult(r, transcript, isFinal) ==
    /\ r \in DOMAIN recognitions
    /\ recognitions[r].status = "active"
    /\ Len(recognitions[r].finalTranscript) < 2 * MaxResults
    /\ recognitions' = [recognitions EXCEPT ![r].finalTranscript =
            IF isFinal THEN @ \o <<transcript, Blank>> ELSE @]
    /\ UNCHANGED <<isSupported, isRecording, lastStart>>
    /\ UNCHANGED <<now, currentUser, userDoc, storedDoc, sessions, calls, started,
                   failures, origin, delVars, regVars, anaVars>>

\* Lines 605-619: the error event of recognition r.
OnError(r) ==
    /\ r \in DOMAIN recognitions
    /\ recognitions[r].status = "active"
    /\ isRecording' = FALSE
    /\ recognitions' = [recognitions EXCEPT
            ![r].status = "errored",
            ![r].promise = settle(@, "rejectedError")]
    /\ UNCHANGED <<isSupported, lastStart>>
    /\ UNCHANGED <<now, currentUser, userDoc, storedDoc, sessions, calls, started,
                   failures, origin, delVars, regVars, anaVars>>

\* Lines 588-602: the end event of recognition r, which the recogniser
\* delivers last, also after an error event.
OnEnd(r) ==
    /\ r \in DOMAIN recognitions
    /\ recognitions[r].status \in {"active", "errored"}
    /\ isRecording' = FALSE
    /\ LET text == Trim(recognitions[r].finalTranscript)
           outcome == IF text # <<>> THEN "resolved" ELSE "rejectedNoSpeech"
       IN  recognitions' = [recognitions EXCEPT
                ![r].status = "ended",
                ![r].promise = settle(@, outcome),
                ![r].value = IF settle(recognitions[r].promise, outcome) = "resolved"
                             THEN text ELSE @]
    /\ UNCHANGED <<isSupported, lastStart>>
    /\ UNCHANGED <<now, currentUser, userDoc, storedDoc, sessions, calls, started,
                   failures, origin, delVars, regVars, anaVars>>

\* Lines 509-527: after construction, with or without the Web Speech API.
InitVoice ==
    /\ currentUser = "u1"
    /\ now = Registered.clock
    /\ storedDoc = Registered.doc
    /\ sessions = Registered.sessions
    /\ userDoc = storedDoc
    /\ calls = [c \in Slots |-> IdleCall]
    /\ started = 0
    /\ failures = 0
    /\ origin = storedDoc
    /\ profile = AnnaProfile
    /\ rootSessions = <<>>
    /\ del = IdleDelete
    /\ authUser = AnnaUser
    /\ reg = IdleRegister
    /\ listener = IdleListener
    /\ AnalyticsReady
    /\ isSupported \in BOOLEAN
    /\ isRecording = FALSE
    /\ recognitions = <<>>
    /\ lastStart = "none"

NextVoice ==
    \/ \E throws \in BOOLEAN : Start(throws)
    \/ Stop
    \/ \E r \in 1..MaxRecognitions, transcript \in Words, isFinal \in BOOLEAN :
            OnResult(r, transcript, isFinal)
    \/ \E r \in 1..MaxRecognitions : OnError(r)
    \/ \E r \in 1..MaxRecognitions : OnEnd(r)

SpecVoice == InitVoice /\ [][NextVoice]_vars

\* The recogniser ends every recognition it started: the end event of each
\* recognition is delivered.
SpecVoiceFair ==
    /\ SpecVoice
    /\ \A r \in 1..MaxRecognitions : WF_vars(OnEnd(r))

\* ---------------------------------------------------------------- Analytics
Configs == [ga4MeasurementId : {"", "G-1"}, yandexMetrikaId : {"", "77"}]
EventNames == {"scenario_started", "profile_viewed"}
PagePaths == {"/profile"}

\* Lines 41-60: initGA4 defines window.gtag and calls it twice.
initGA4(a, log, measurementId) ==
    [a   |-> [a EXCEPT !.gtag = TRUE, !.ga4Inits = @ + 1],
     log |-> log \o <<[provider |-> "ga4", name |-> "js", label |-> ""],
                      [provider |-> "ga4", name |-> "config", label |-> measurementId]>>]

\* Lines 65-84: initYandexMetrika defines window.ym unless the page has,
\* calls it and keeps the counter id.
initYandexMetrika(a, log, counterId) ==
    [a   |-> [a EXCEPT !.ym = TRUE, !.yandexInits = @ + 1, !.yandexCounterId = counterId],
     log |-> Append(log, [provider |-> "yandex", name |-> "init", label |-> counterId])]

\* Lines 18-36: init(config).
AnalyticsInit(config) ==
    /\ IF analytics.isInitialized
       THEN UNCHANGED <<analytics, dispatched>>
       ELSE LET ga == IF config.ga4MeasurementId # ""
                      THEN initGA4(analytics, dispatched, config.ga4MeasurementId)
                      ELSE [a |-> analytics, log |-> dispatched]
                ya == IF config.yandexMetrikaId # ""
                      THEN initYandexMetrika(ga.a, ga.log, config.yandexMetrikaId)
                      ELSE ga
            IN  /\ analytics' = [ya.a EXCEPT !.isInitialized = TRUE]
                /\ dispatched' = ya.log
    /\ UNCHANGED <<now, currentUser, userDoc, storedDoc, sessions, calls, started,
                   failures, origin, delVars, regVars, voiceVars>>

\* Lines 91-108 and 110-235: trackEvent, called directly or by a wrapper.
TrackEvent(eventName) ==
    /\ Len(dispatched) < MaxDispatches
    /\ dispatched' = trackEvent(analytics, dispatched, eventName, "")
    /\ UNCHANGED <<now, currentUser, userDoc, storedDoc, sessions, calls, started,
                   failures, origin, delVars, regVars, analytics, voiceVars>>

\* Lines 241-256: trackPageView calls the providers itself.
trackPageView(a, log, pagePath) ==
    log \o (IF a.gtag
            THEN <<[provider |-> "ga4", name |-> "page_view", label |-> pagePath]>>
            ELSE <<>>)
        \o (IF a.ym /\ a.yandexCounterId # ""
            THEN <<[provider |-> "yandex", name |-> "hit", label |-> pagePath]>>
            ELSE <<>>)

TrackPageView(pagePath) ==
    /\ Len(dispatched) < MaxDispatches
    /\ dispatched' = trackPageView(analytics, dispatched, pagePath)
    /\ UNCHANGED <<now, currentUser, userDoc, storedDoc, sessions, calls, started,
                   failures, origin, delVars, regVars, analytics, voiceVars>>

\* Lines 283-287 with no window.ANALYTICS_CONFIG: the instance is not
\* initialised; the page may have defined window.gtag and window.ym itself.
InitAnalytics ==
    /\ currentUser = "u1"
    /\ now = Registered.clock
    /\ storedDoc = Registered.doc
    /\ sessions = Registered.sessions
    /\ userDoc = storedDoc
    /\ calls = [c \in Slots |-> IdleCall]
    /\ started = 0
    /\ failures = 0
    /\ origin = storedDoc
    /\ profile = AnnaProfile
    /\ rootSessions = <<>>
    /\ del = IdleDelete
    /\ authUser = AnnaUser
    /\ reg = IdleRegister
    /\ listener = IdleListener
    /\ \E gtag \in BOOLEAN, ym \in BOOLEAN :
            analytics = [NewAnalytics EXCEPT !.gtag = gtag, !.ym = ym]
    /\ dispatched = <<>>
    /\ VoiceIdle

NextAnalytics ==
    \/ \E config \in Configs : AnalyticsInit(config)
    \/ \E eventName \in EventNames : TrackEvent(eventName)
    \/ \E pagePath \in PagePaths : TrackPageView(pagePath)

SpecAnalytics == InitAnalytics /\ [][NextAnalytics]_vars

TypeOK ==
    /\ now \in Nat
    /\ started \in 0..(MaxSessions + MaxCalls)
    /\ failures \in 0..MaxFailures
    /\ \A c \in Slots : calls[c].pc \in
            {"idle", "reload", "create", "add", "update", "achievements", "load"}
    /\ del.pc \in {"idle", "delete", "query", "update", "load"}
    /\ del.begun \in 0..MaxDeletes
    /\ reg.pc \in {"idle", "createUser", "updateProfile", "createDocument"}
    /\ listener.pc \in {"idle", "called", "get", "create", "done"}
    /\ analytics.isInitialized \in BOOLEAN
    /\ isSupported \in BOOLEAN
    /\ isRecording \in BOOLEAN
    /\ Len(recognitions) <= MaxRecognitions
    /\ \A r \in DOMAIN recognitions :
            /\ recognitions[r].status \in {"active", "errored", "ended", "failed"}
            /\ recognitions[r].promise \in
                    {"pending", "resolved", "rejectedNoSpeech", "rejectedError", "rejectedThrow"}
    /\ lastStart \in {"none", "accepted", "alreadyRecording", "notSupported"}


\* ---------------------------------------------------------------- claims
\* The call of slot 1 has returned {success: true}; in SpecSeq nothing has
\* happened since.
Succeeded == calls[1].pc = "idle" /\ calls[1].result = "success"

Before == calls[1].pre.doc

C2_FirstSessionOnFirstCall ==
    /\ [](origin = InitialData /\ Succeeded
            => storedDoc.achievements["first_session"] # Null)
    /\ [][storedDoc.achievements["first_session"] # Null
            => storedDoc'.achievements["first_session"]
                 = storedDoc.achievements["first_session"]]_vars

\* C3: a successful call unlocks an achievement that was not yet present if
\* and only if its requirement holds on the progress and skills as updated
\* by this call and on this call's session.
C3_UnlockOnUpdatedRecord ==
    Succeeded =>
        \A id \in AchievementIds :
            Before.achievements[id] = Null =>
                (storedDoc.achievements[id] # Null
                    <=> requirement(id, storedDoc, calls[1].data))


\* averageScore after folding score a and then score b into progress.
SerialAverage(progress, a, b) ==
    MathRoundDiv(newAverageOf(progress, a) * (progress.totalSessions + 1) + b,
                 progress.totalSessions + 2)

\* Both calls have returned {success: true} and both computed their update
\* from the same cached progress, i.e. before the write of either was cached.
OverlappedAndSucceeded ==
    /\ \A c \in Slots : calls[c].pc = "idle" /\ calls[c].result = "success"
    /\ calls[1].currentProgress = calls[2].currentProgress

\* C4: two overlapping saveSessionResults calls of one user lose no update:
\* after both succeed totalSessions has grown by 2, averageScore is the
\* average of both scores folded in one of the two orders, and totalSessions
\* equals completedScenarios.
C4_NoLostUpdate ==
    OverlappedAndSucceeded =>
        LET p == calls[1].currentProgress
            a == calls[1].data.score
            b == calls[2].data.score
        IN  /\ storedDoc.progress.totalSessions = p.totalSessions + 2
            /\ storedDoc.progress.averageScore
                 \in {SerialAverage(p, a, b), SerialAverage(p, b, a)}
            /\ storedDoc.progress.totalSessions = storedDoc.progress.completedScenarios

\* C5: a call that returns {success: false} leaves the session log and the
\* stored progress, skills and achievements as they were before the call
\* (slot 2 unused: no other call has run).
C5_AllOrNothing ==
    (calls[1].pc = "idle" /\ calls[1].result = "failure" /\ calls[2].result = "none") =>
        /\ sessions = calls[1].pre.sessions
        /\ storedDoc = calls[1].pre.doc


\* r is the arithmetic mean p / q rounded to the nearest integer, halves up.
IsRounded(r, p, q) == 2 * r * q <= 2 * p + q /\ 2 * p + q < 2 * (r + 1) * q

FromRegistration == origin = InitialData /\ calls[1].pc = "idle"

\* C6 as stated: after any sequence of successful calls from registration,
\* averageScore is the rounded mean of all scores folded so far and
\* totalSessions is their number.
C6_RoundedMeanOfAll ==
    (FromRegistration /\ sessions # <<>>) =>
        /\ storedDoc.progress.totalSessions = Len(sessions)
        /\ IsRounded(storedDoc.progress.averageScore, SumScores(sessions), Len(sessions))

\* C6 amended: totalSessions is the number of sessions folded, and
\* averageScore is the rounded mean of the scores as long as at most two
\* sessions have been folded.
C6_RoundedMeanUpToTwo ==
    (FromRegistration /\ sessions # <<>>) =>
        /\ storedDoc.progress.totalSessions = Len(sessions)
        /\ Len(sessions) <= 2 =>
              IsRounded(storedDoc.progress.averageScore, SumScores(sessions), Len(sessions))

C6_Witness ==
    /\ FromRegistration
    /\ Len(sessions) = 2
    /\ sessions[1].score # sessions[2].score
    /\ storedDoc.progress.totalSessions = 2
    /\ IsRounded(storedDoc.progress.averageScore, SumScores(sessions), 2)

ElapsedDays == (now - Before.progress.lastSessionDate) \div HoursPerDay

\* C8: the streak after a successful call is decided by the whole elapsed
\* days d alone: no earlier session gives 1, d = 0 keeps the streak, d = 1
\* adds one, d > 1 gives 1.
C8_StreakByElapsedDays ==
    Succeeded =>
        IF Before.progress.lastSessionDate = Null
        THEN storedDoc.progress.streak = 1
        ELSE /\ ElapsedDays = 0 => storedDoc.progress.streak = Before.progress.streak
             /\ ElapsedDays = 1 => storedDoc.progress.streak = Before.progress.streak + 1
             /\ ElapsedDays > 1 => storedDoc.progress.streak = 1

C8_Witness ==
    /\ Succeeded
    /\ Before.progress.lastSessionDate # Null
    /\ ElapsedDays = 1
    /\ Before.progress.streak >= 1
    /\ storedDoc.progress.streak = Before.progress.streak + 1

\* C9: when every gap between consecutive sessions is shorter than a day,
\* the streak is at least the whole days elapsed since the first session
\* plus 1.
C9_StreakCountsDays ==
    (calls[1].pc = "idle" /\ sessions # <<>>
        /\ \A i \in 1..(Len(sessions) - 1) :
              sessions[i + 1].completedAt - sessions[i].completedAt < HoursPerDay) =>
        storedDoc.progress.streak
            >= (sessions[Len(sessions)].completedAt - sessions[1].completedAt)
                  \div HoursPerDay + 1


\* The call of slot 1 has computed newSkills.
SkillsComputed == calls[1].pc \in {"update", "achievements", "load"} \/ Succeeded

\* C10: from current skills and gains in 0..100 or missing, updateSkills
\* returns four values in 0..100, and so does the record a successful call
\* stores.
C10_SkillsInRange ==
    \A k \in SkillNames :
        /\ SkillsComputed => calls[1].update.skills[k] \in 0..MaxSkill
        /\ Succeeded => storedDoc.skills[k] \in 0..MaxSkill

\* A missing current value counted as 50 and a gain of 100: 65 is stored.
C10_Witness ==
    /\ Succeeded
    /\ \E k \in SkillNames :
          /\ Before.skills[k] = Missing
          /\ calls[1].data.skillsGained[k] = MaxSkill
          /\ storedDoc.skills[k] = 65

\* round(c * 0.7 + g * 0.3) in exact arithmetic, halves rounded up.
ExactRound(c, g) == (7 * c + 3 * g + 5) \div 10

\* C11: each of the four skills becomes min(100, round(c * 0.7 + g * 0.3)),
\* where c is the current value, or 50 when it is missing, and g the gained
\* value, or 0 when it is missing.
C11_WeightedFormula ==
    SkillsComputed =>
        \A k \in SkillNames :
            LET cur == Before.skills[k]
                gained == calls[1].data.skillsGained[k]
                c == IF cur = Missing THEN 50 ELSE cur
                g == IF gained = Missing THEN 0 ELSE gained
            IN  calls[1].update.skills[k] = Min(100, ExactRound(c, g))

NoGains == Gained(Missing, Missing, Missing, Missing)

\* The two sessions of the sequence have been saved, the second a day later.
TwoSessionSequence ==
    /\ FromRegistration
    /\ Succeeded
    /\ Len(sessions) = 2
    /\ sessions[1].score = 95
    /\ sessions[2].score = 60
    /\ sessions[2].skillsGained = NoGains
    /\ sessions[2].completedAt - sessions[1].completedAt \in 24..47

\* C13: from registration, a session with score 95 and then, at least 24 and
\* less than 48 hours later, a session with score 60 and no skill gains
\* leave totalSessions 2, averageScore 78 and streak 2.
C13_TwoSessionSequence ==
    TwoSessionSequence =>
        /\ storedDoc.progress.totalSessions = 2
        /\ storedDoc.progress.averageScore = 78
        /\ storedDoc.progress.streak = 2

C13_Witness ==
    /\ TwoSessionSequence
    /\ storedDoc.progress.totalSessions = 2
    /\ storedDoc.progress.averageScore = 78
    /\ storedDoc.progress.streak = 2

\* C12: an achievement entry that is present is never removed and its
\* unlockedAt is never overwritten, whatever calls follow or overlap.
C12_AchievementsKept ==
    [][\A id \in AchievementIds :
          storedDoc.achievements[id] # Null =>
              storedDoc'.achievements[id] = storedDoc.achievements[id]]_vars

\* The argument is in the documented domain: score in 0..100, gains finite.
ValidInput(sessionData) ==
    /\ sessionData.score \in 0..100
    /\ \A k \in SkillNames : sessionData.skillsGained[k] # Infinity

Returned == calls[1].pc = "idle" /\ calls[1].result # "none"

\* C14: a call whose score is not a number in 0..100, or whose skillsGained
\* holds a non-finite value, is signalled as a failure and leaves the stored
\* progress, skills, achievements and session log unchanged.
C14_InvalidInputRejected ==
    (Returned /\ ~ValidInput(calls[1].data)) =>
        /\ calls[1].result = "failure"
        /\ storedDoc = calls[1].pre.doc
        /\ sessions = calls[1].pre.sessions

\* The session log without the session a deleteSession call names.
Remaining(log, id) ==
    [i \in 1..(Len(log) - 1) |-> IF i < id THEN log[i] ELSE log[i + 1]]

\* From registration, with nothing else in the top-level collection, no call
\* is in flight and at most one deleteSession call has been made, for a
\* session that saveSessionResults stored.
SavedAndDeleted ==
    /\ origin = InitialData
    /\ rootSessions = <<>>
    /\ calls[1].pc = "idle"
    /\ del.pc = "idle"
    /\ del.begun = 1 => (del.result = "success" /\ del.sessionId \in 1..Len(sessions))
    /\ del.begun <= 1

\* The sessions saved and not deleted.
Kept == IF del.begun = 0 THEN sessions ELSE Remaining(sessions, del.sessionId)

\* C15: after successful saveSessionResults and deleteSession calls,
\* totalTimeSpent is the sum of the durations of the sessions that are
\* stored, in the unit in which saveSessionResults adds them.
C15_TimeIsSumOfDurations ==
    SavedAndDeleted => storedDoc.progress.totalTimeSpent = SumDurations(Kept)

\* deleteSession has succeeded for one of the saved sessions and nothing has
\* been saved since.
DeletedOneOfSaved ==
    /\ SavedAndDeleted
    /\ del.begun = 1
    /\ del.pre.doc.progress.completedScenarios = Len(sessions)

\* C17: after n saved sessions and a successful deleteSession of one of
\* them, totalSessions is n - 1 and averageScore is the rounded mean of the
\* remaining scores, 0 when none remain.
C17_RecountOverSavedSessions ==
    DeletedOneOfSaved =>
        /\ storedDoc.progress.totalSessions = Len(sessions) - 1
        /\ IF Len(Kept) = 0
           THEN storedDoc.progress.averageScore = 0
           ELSE IsRounded(storedDoc.progress.averageScore, SumScores(Kept), Len(Kept))

\* C18: through saveSessionResults calls with scores in 0..100 and
\* non-negative durations and through deleteSession calls, totalSessions,
\* totalTimeSpent and streak stay non-negative, averageScore stays an integer
\* in 0..100, and streak is at least 1 whenever lastSessionDate is set.
C18_ProgressInRange ==
    LET p == storedDoc.progress
    IN  /\ p.totalSessions >= 0
        /\ p.averageScore \in 0..100
        /\ p.totalTimeSpent >= 0
        /\ p.streak >= 0
        /\ p.lastSessionDate # Null => p.streak >= 1

\* A deleteSession call has recounted two sessions with scores 80 and 71 and
\* stored the rounded mean 76, and a session has been saved after it.
C18_Witness ==
    /\ del.result = "success"
    /\ del.recount.totalSessions = 2
    /\ del.recount.averageScore = 76
    /\ Succeeded
    /\ storedDoc.progress.totalSessions = 3
    /\ storedDoc.progress.lastSessionDate # Null
    /\ storedDoc.progress.streak >= 1

\* C20: deleteSession leaves progress.completedScenarios, progress.streak,
\* progress.lastSessionDate, skills, achievements and profile.displayName as
\* they are; it changes only progress.totalSessions, progress.averageScore,
\* progress.totalTimeSpent and profile.updatedAt.
C20_DeleteFrame ==
    [][del' # del =>
          /\ storedDoc'.progress.completedScenarios = storedDoc.progress.completedScenarios
          /\ storedDoc'.progress.streak = storedDoc.progress.streak
          /\ storedDoc'.progress.lastSessionDate = storedDoc.progress.lastSessionDate
          /\ storedDoc'.skills = storedDoc.skills
          /\ storedDoc'.achievements = storedDoc.achievements
          /\ profile'.displayName = profile.displayName
          /\ sessions' = sessions]_vars

\* A deleteSession call has returned success having changed the three
\* progress fields and profile.updatedAt of a user with a streak.
C20_Witness ==
    /\ del.pc = "idle"
    /\ del.result = "success"
    /\ calls[1].pc = "idle"
    /\ del.pre.doc.progress.streak >= 1
    /\ storedDoc.progress.totalSessions # del.pre.doc.progress.totalSessions
    /\ storedDoc.progress.averageScore # del.pre.doc.progress.averageScore
    /\ storedDoc.progress.totalTimeSpent # del.pre.doc.progress.totalTimeSpent
    /\ profile.updatedAt # del.pre.profile.updatedAt
    /\ storedDoc.progress.streak = del.pre.doc.progress.streak
    /\ storedDoc.skills = del.pre.doc.skills
    /\ storedDoc.achievements = del.pre.doc.achievements

\* A step writes to the store.
StoreWritten == sessions' # sessions \/ storedDoc' # storedDoc \/ profile' # profile

\* A step appends a session or changes a user document that exists.
StoredDataChanged == sessions' # sessions \/ (storedDoc # NoDoc /\ storedDoc' # storedDoc)

\* Without a current user the call throws; it returns a failure with the
\* document still not loaded only when the reload failed.
ThrownWithoutUser ==
    Returned =>
        /\ calls[1].result = "thrown" <=> currentUser = "none"
        /\ calls[1].result = "thrown" =>
              (sessions = calls[1].pre.sessions /\ storedDoc = calls[1].pre.doc)

ReloadFailed == Returned /\ calls[1].result = "failure" /\ userDoc = NoDoc

\* C19 as stated: saveSessionResults makes no store write at all unless a
\* user is logged in and a user document is loaded; without a user it
\* throws, and when the reload fails it returns a failure having appended no
\* session and written nothing.
C19_NoWriteUnlessLoaded ==
    /\ [](ThrownWithoutUser
          /\ (ReloadFailed =>
                (sessions = calls[1].pre.sessions /\ storedDoc = calls[1].pre.doc)))
    /\ [][StoreWritten => (currentUser # "none" /\ userDoc # NoDoc)]_vars

\* C19 amended: saveSessionResults appends no session and changes no
\* existing user document unless a user is logged in and a user document is
\* loaded; without a user it throws, and when the reload fails it returns a
\* failure having appended no session and left an existing document as it
\* was.  A document that does not exist is created by the reload, with
\* createUserDocument's initial data, also when the call then fails.
C19_NoDataWriteUnlessLoaded ==
    /\ [](ThrownWithoutUser
          /\ (ReloadFailed =>
                /\ sessions = calls[1].pre.sessions
                /\ storedDoc # calls[1].pre.doc =>
                      (calls[1].pre.doc = NoDoc /\ storedDoc = InitialData)))
    /\ [][StoredDataChanged => (currentUser # "none" /\ userDoc # NoDoc)]_vars

\* The reload found no stored document, created it, and its second get
\* failed: the call returned a failure with the new document stored.
C19_Witness ==
    /\ ReloadFailed
    /\ calls[1].pre.doc = NoDoc
    /\ storedDoc = InitialData
    /\ sessions = <<>>

\* register has returned success and the listener callback has finished.
RegisteredAndSettled == reg.pc = "idle" /\ reg.result = "success" /\ listener.pc = "done"

\* C16 as stated: once register has returned success and the listener
\* callback has finished, the stored document is the initial one and
\* profile.displayName is the displayName passed to register, in every
\* interleaving of register's createUserDocument with the listener's
\* load-or-create.
C16_InitialDocumentWithGivenName ==
    RegisteredAndSettled =>
        /\ storedDoc = InitialData
        /\ profile.displayName = reg.displayName

\* C16 amended: the stored document is the initial one and
\* profile.displayName is the displayName passed to register, or the part of
\* the email before '@' when that displayName is empty.
C16_InitialDocumentWithNameOrPrefix ==
    RegisteredAndSettled =>
        /\ storedDoc = InitialData
        /\ profile.displayName =
              IF reg.displayName # "" THEN reg.displayName ELSE EmailPrefix(reg.email)

\* The listener found no document and created one under the email prefix
\* before updateProfile had finished; register's document replaced it.
C16_Witness ==
    /\ RegisteredAndSettled
    /\ listener.displayName = EmailPrefix(reg.email)
    /\ reg.displayName \notin {"", EmailPrefix(reg.email)}
    /\ profile.displayName = reg.displayName
    /\ userDoc = InitialData

\* No operation and no listener callback is in flight.
NothingInFlight ==
    /\ \A c \in Slots : calls[c].pc = "idle"
    /\ del.pc = "idle"
    /\ reg.pc = "idle"
    /\ listener.pc \in {"idle", "done"}

\* C21: whenever nothing is in flight, this.userDoc is null if
\* this.currentUser is null and is the stored document of the current user
\* otherwise, whatever auth-state events came between the steps of the
\* calls.
C21_CacheMatchesUser ==
    NothingInFlight =>
        IF currentUser = "none" THEN userDoc = NoDoc ELSE userDoc = storedDoc

\* The number of achievement_unlocked events handed to Google Analytics
\* for the achievement id.
Emitted(id) ==
    Cardinality({i \in DOMAIN dispatched :
                    /\ dispatched[i].provider = "ga4"
                    /\ dispatched[i].name = "achievement_unlocked"
                    /\ dispatched[i].label = id})

EmittedAtMostOnce == \A id \in AchievementIds : Emitted(id) <= 1

EmittedOnlyIfWritten ==
    (\A c \in Slots : calls[c].pc = "idle") =>
        \A id \in AchievementIds : Emitted(id) > 0 => storedDoc.achievements[id] # Null

\* C22: achievement_unlocked is emitted at most once per achievement id of
\* the user, and once the calls have ended every id emitted is in the
\* stored achievement record.
C22_UnlockEmittedOnceAndWritten == EmittedAtMostOnce /\ EmittedOnlyIfWritten

\* loadUserData is running inside the call: its get or the set of
\* createUserDocument is awaited.
LoadingUserData == calls[1].pc \in {"reload", "create"}

\* C23: loadUserData terminates; it creates the document only when the get
\* found none, the reload after the creation finds the document, the call
\* goes on with this.userDoc set to the stored document, and a store error
\* ends the call with a failure instead of a retry.
C23_LoadUserDataTerminates ==
    /\ LoadingUserData ~> ~LoadingUserData
    /\ [][(calls[1].pc = "reload" /\ calls'[1].pc = "create") => storedDoc = NoDoc]_vars
    /\ [][(calls[1].pc = "create" /\ calls'[1].pc = "reload") => storedDoc' # NoDoc]_vars
    /\ [][(calls[1].pc = "reload" /\ storedDoc # NoDoc) => calls'[1].pc # "create"]_vars
    /\ [][(LoadingUserData /\ calls'[1].pc = "add") =>
              (userDoc' # NoDoc /\ userDoc' = storedDoc')]_vars
    /\ [][(LoadingUserData /\ failures' # failures) =>
              (calls'[1].pc = "idle" /\ calls'[1].result = "failure")]_vars

\* The get found no document, createUserDocument stored the initial one,
\* the second get loaded it and the call went on to append the session.
C23_Witness ==
    /\ calls[1].pc = "add"
    /\ calls[1].pre.doc = NoDoc
    /\ storedDoc = InitialData
    /\ userDoc = InitialData

\* Recognition r was started and has delivered neither its end event nor an
\* error event.
Active(r) == recognitions[r].status = "active"

ActiveRecognitions == {r \in DOMAIN recognitions : Active(r)}

\* C24: at most one recognition is active, isRecording is true exactly
\* while one is, and start() creates no recognition while one is active,
\* whatever the order of start(), stop() and the end and error events.
C24_OneActiveRecognition ==
    /\ [](Cardinality(ActiveRecognitions) <= 1)
    /\ [](isSupported => (isRecording <=> ActiveRecognitions # {}))
    /\ [][Len(recognitions') > Len(recognitions) => ActiveRecognitions = {}]_vars

Settled(r) == recognitions[r].promise # "pending"

\* Some final result carried a text other than blanks.
HasSpeech(r) ==
    \E i \in DOMAIN recognitions[r].finalTranscript :
        recognitions[r].finalTranscript[i] \notin {"", Blank}

\* The step settles the promise of recognition r.
Settles(r) ==
    /\ r \in DOMAIN recognitions'
    /\ Settled(r)'
    /\ r \in DOMAIN recognitions => ~Settled(r)

\* C25: the promise of every recognition settles (again and again all
\* promises made so far are settled), and once, keeping its outcome: resolved with the trimmed transcript only at an end event with
\* speech in the final transcript, rejected with 'No speech detected' only
\* at an end event without, rejected otherwise only at an error event or
\* when recognition.start() threw; the settling step leaves isRecording
\* false.
C25_PromiseSettlesOnce ==
    /\ []<>(\A r \in DOMAIN recognitions : Settled(r))
    /\ [][\A r \in DOMAIN recognitions :
            Settled(r) => /\ recognitions'[r].promise = recognitions[r].promise
                          /\ recognitions'[r].value = recognitions[r].value]_vars
    /\ [][\A r \in 1..MaxRecognitions :
            Settles(r) =>
              /\ isRecording' = FALSE
              /\ CASE recognitions'[r].promise = "resolved" ->
                        /\ recognitions[r].status = "active"
                        /\ recognitions'[r].status = "ended"
                        /\ HasSpeech(r)
                        /\ recognitions'[r].value = Trim(recognitions[r].finalTranscript)
                        /\ recognitions'[r].value # <<>>
                        /\ Head(recognitions'[r].value) # Blank
                        /\ recognitions'[r].value[Len(recognitions'[r].value)] # Blank
                   [] recognitions'[r].promise = "rejectedNoSpeech" ->
                        /\ recognitions[r].status = "active"
                        /\ recognitions'[r].status = "ended"
                        /\ ~HasSpeech(r)
                   [] recognitions'[r].promise = "rejectedError" ->
                        /\ recognitions[r].status = "active"
                        /\ recognitions'[r].status = "errored"
                   [] recognitions'[r].promise = "rejectedThrow" ->
                        /\ r \notin DOMAIN recognitions
                        /\ recognitions'[r].status = "failed"]_vars

\* The first recognition was rejected at its error event and kept that
\* outcome at its later end event, although it had heard speech; the second
\* one, started after the first had ended, was resolved with the transcript.
C25_Witness ==
    /\ Len(recognitions) = 2
    /\ recognitions[1].status = "ended"
    /\ recognitions[1].promise = "rejectedError"
    /\ HasSpeech(1)
    /\ recognitions[2].status = "ended"
    /\ recognitions[2].promise = "resolved"
    /\ recognitions[2].value = <<"yes">>
    /\ ~isRecording
    /\ lastStart = "accepted"

\* C26: while the instance is not initialised no tracking call reaches a
\* provider, and once it is initialised an init call initialises no
\* provider again and leaves yandexCounterId as it is.
C26_NothingBeforeInitAndInitOnce ==
    /\ [][(~analytics.isInitialized /\ ~analytics'.isInitialized) =>
              dispatched' = dispatched]_vars
    /\ [][analytics.isInitialized =>
              /\ analytics'.ga4Inits = analytics.ga4Inits
              /\ analytics'.yandexInits = analytics.yandexInits
              /\ analytics'.yandexCounterId = analytics.yandexCounterId]_vars

====
